---- MODULE Spec2Model ----
(***************************************************************************)
(* Model of applications/navierstokes/training/train_pfno.py: the          *)
(* distributed training driver of the parallel FNO.  Every MPI worker runs *)
(* the same script; the workers only interact through the barriers on the  *)
(* world communicator (lines 16, 74) and on the feature partition P_x      *)
(* (lines 133, 139) and through the files they write.                      *)
(***************************************************************************)
EXTENDS Integers, Sequences, FiniteSets, TLC

(* ---- bounds of the model ---- *)
MaxWorkers == 2
MaxEpochs == 2
MaxInterval == 2
MaxTrain == 2
MaxValid == 1

(* ---- constants of the script ---- *)
nb == 1
num_train == 8
num_valid == 2
default_num_epochs == 100
default_checkpoint_interval == 10

VARIABLES
    n,                    \* number of workers, P_world.shape[0]
    num_epochs,           \* configured epoch count
    checkpoint_interval,  \* configured checkpoint interval
    train_len,            \* per worker: batches one pass over train_loader yields
    valid_len,            \* per worker: batches one pass over valid_loader yields
    has_params,           \* per worker: len(parameters) > 0
    pc,                   \* per worker: position in the script
    parts,                \* per worker: partitions constructed so far
    arrived,              \* per communicator, per worker: Barrier() calls made
    x_site,               \* per worker: call site of its last Barrier() on P_x
    i,                    \* per worker: epoch loop variable (-1: unbound)
    j,                    \* per worker: batch index of enumerate (-1: none yet)
    mode,                 \* per worker: "train" or "eval" mode of pfno
    opt_steps,            \* per worker: model state = optimizer steps applied
    ops,                  \* per worker: operations of the current batch, in order
    train_loss, n_train_batch, valid_loss, n_valid_batch,
    train_accs, valid_accs, \* per worker: loss histories
    hist_bound,           \* per worker: the names train_accs, valid_accs exist
    fs,                   \* out_dir: path -> sequence of writes
    cycles,               \* per worker: completed bodies of the epoch loop
    begun,                \* per worker: training batches begun
    stepped               \* per worker: training batches past the optimizer block

vars == <<n, num_epochs, checkpoint_interval, train_len, valid_len, has_params,
          pc, parts, arrived, x_site, i, j, mode, opt_steps, ops,
          train_loss, n_train_batch, valid_loss, n_valid_batch,
          train_accs, valid_accs, hist_bound, fs, cycles, begun, stepped>>

cfgvars == <<n, num_epochs, checkpoint_interval, train_len, valid_len, has_params>>
lossvars == <<train_loss, n_train_batch, valid_loss, n_valid_batch>>
histvars == <<train_accs, valid_accs, hist_bound>>
countvars == <<cycles, begun, stepped>>

Workers == 0 .. (n - 1)

(* P_root = P_world.create_partition_inclusive([0]): active on rank 0 only *)
RootActive(w) == w = 0

(* ---- file names ---- *)
DigitChar(d) == <<"0", "1", "2", "3", "4", "5", "6", "7", "8", "9">>[d + 1]

RECURSIVE Str(_)
Str(k) == IF k < 10 THEN <<DigitChar(k)>>
          ELSE Str(k \div 10) \o <<DigitChar(k % 10)>>

RECURSIVE Zeros(_)
Zeros(k) == IF k <= 0 THEN <<>> ELSE <<"0">> \o Zeros(k - 1)

(* format spec :04d  -- zero padded to a minimum width of 4 *)
Pad04(k) == Zeros(4 - Len(Str(k))) \o Str(k)

OutDir == <<"/path/to/model", "/">>

LossPath(e) ==
    OutDir \o <<"l","o","s","s","_","e","p","o","c","h","_">> \o Str(e)
           \o <<".","h","5">>

(* variant: the checkpoint name without the rank *)
CheckpointPath_NoRank(e, r) ==
    OutDir \o <<"m","o","d","e","l","_">> \o Pad04(e) \o <<".","p","t">>

CheckpointPath(e, r) ==
    OutDir \o <<"m","o","d","e","l","_">> \o Pad04(e) \o <<"_">> \o Pad04(r)
           \o <<".","p","t">>

FinalPath(r) ==
    OutDir \o <<"m","o","d","e","l","_">> \o Pad04(r) \o <<".","p","t">>

(* open(path, 'w') / torch.save: every write to a path is logged in order *)
WriteFile(files, path, rec) ==
    IF path \in DOMAIN files
        THEN [files EXCEPT ![path] = Append(@, rec)]
        ELSE files @@ (path :> <<rec>>)

Writes(path) == IF path \in DOMAIN fs THEN fs[path] ELSE <<>>

(* variant: the snapshot holds the initial parameters *)
StateDict_Initial(w) == [steps |-> 0]

(* pfno.state_dict(): the parameters after the optimizer steps applied so far *)
StateDict(w) == [steps |-> opt_steps[w]]

(* loss.item() of a batch: a positive number depending on the model state *)
LossItem(steps, batch) == 1 + ((steps + batch) % 2)

(* sum / count of Python numbers, kept exact as a fraction; count = 0 raises *)
Mean(sum, count) == [num |-> sum, den |-> count]

(* variant: the interval test without the +1 *)
CheckpointDue_ZeroBased(e, interval) == e % interval = 0

(* the epochs in which the checkpoint block runs *)
CheckpointDue(e, interval) == (e + 1) % interval = 0

(* ---- configurations ---- *)
(* every worker builds its loader from the same index range (lines 61-73) *)
UniformLens(k, lens) == { [w \in 0 .. (k - 1) |-> len] : len \in lens }

(* ... or the loader of at most one worker yields fewer batches *)
SkewedLens(k, max) ==
    { f \in [0 .. (k - 1) -> 0 .. max] :
        \E short \in 0 .. (k - 1) :
            \A w, v \in (0 .. (k - 1)) \ {short} :
                f[w] = f[v] /\ f[short] <= f[w] }

(* every worker holds parameters, or only the root-active worker does *)
ParamLayouts(k) ==
    { [w \in 0 .. (k - 1) |-> TRUE], [w \in 0 .. (k - 1) |-> w = 0] }

SmallConfigs ==
    UNION { [ n : {k},
              num_epochs : {1, MaxEpochs},
              checkpoint_interval : {1, MaxInterval},
              train_len : SkewedLens(k, MaxTrain),
              valid_len : UniformLens(k, {0, MaxValid}),
              has_params : ParamLayouts(k) ] : k \in 1 .. MaxWorkers }

(* the configuration written in the script, on a single worker *)
ScriptConfig ==
    [ n |-> 1,
      num_epochs |-> default_num_epochs,
      checkpoint_interval |-> default_checkpoint_interval,
      train_len |-> [w \in {0} |-> num_train \div nb],
      valid_len |-> [w \in {0} |-> num_valid \div nb],
      has_params |-> [w \in {0} |-> TRUE] ]

Configs == SmallConfigs \cup {ScriptConfig}

Init ==
    \E c \in Configs :
        /\ n = c.n
        /\ num_epochs = c.num_epochs
        /\ checkpoint_interval = c.checkpoint_interval
        /\ train_len = c.train_len
        /\ valid_len = c.valid_len
        /\ has_params = c.has_params
        /\ pc = [w \in 0 .. (c.n - 1) |-> "init_world"]
        /\ parts = [w \in 0 .. (c.n - 1) |-> {}]
        /\ arrived = [k \in {"world", "x"} |-> [w \in 0 .. (c.n - 1) |-> 0]]
        /\ x_site = [w \in 0 .. (c.n - 1) |-> "none"]
        /\ i = [w \in 0 .. (c.n - 1) |-> -1]
        /\ j = [w \in 0 .. (c.n - 1) |-> -1]
        /\ mode = [w \in 0 .. (c.n - 1) |-> "train"]
        /\ opt_steps = [w \in 0 .. (c.n - 1) |-> 0]
        /\ ops = [w \in 0 .. (c.n - 1) |-> <<>>]
        /\ train_loss = [w \in 0 .. (c.n - 1) |-> 0]
        /\ n_train_batch = [w \in 0 .. (c.n - 1) |-> 0]
        /\ valid_loss = [w \in 0 .. (c.n - 1) |-> 0]
        /\ n_valid_batch = [w \in 0 .. (c.n - 1) |-> 0]
        /\ train_accs = [w \in 0 .. (c.n - 1) |-> <<>>]
        /\ valid_accs = [w \in 0 .. (c.n - 1) |-> <<>>]
        /\ hist_bound = [w \in 0 .. (c.n - 1) |-> FALSE]
        /\ fs = <<>>
        /\ cycles = [w \in 0 .. (c.n - 1) |-> 0]
        /\ begun = [w \in 0 .. (c.n - 1) |-> 0]
        /\ stepped = [w \in 0 .. (c.n - 1) |-> 0]

(* variant: a Barrier() that waits for one more arrival than there will be *)
BarrierOpen_OneTooMany(comm, w) ==
    \A v \in Workers : v = w \/ arrived[comm][v] > arrived[comm][w]

(* variant: a Barrier() that does not wait for crashed workers *)
BarrierOpen_LiveOnly(comm, w) ==
    \A v \in Workers : pc[v] = "crashed" \/ arrived[comm][v] >= arrived[comm][w]

(* variant: a Barrier() that never blocks *)
BarrierOpen_NeverBlocks(comm, w) == TRUE

(* ---- barriers ---- *)
(* comm.Barrier(): the call returns once every worker of the communicator  *)
(* has made at least as many Barrier() calls on it as the caller.          *)
BarrierOpen(comm, w) == \A v \in Workers : arrived[comm][v] >= arrived[comm][w]

Arrive(comm, w) == arrived' = [arrived EXCEPT ![comm][w] = @ + 1]

(* variant: no barrier after the world partition *)
InitMPI_NoBarrier(w) ==
    /\ pc[w] = "init_world"
    /\ parts' = [parts EXCEPT ![w] = @ \cup {"P_world"}]
    /\ pc' = [pc EXCEPT ![w] = "make_parts"]
    /\ UNCHANGED <<cfgvars, arrived, x_site, i, j, mode, opt_steps, ops,
                   lossvars, histvars, fs, countvars>>

(* ---- setup, lines 14-103 ---- *)
InitMPI(w) ==
    /\ pc[w] = "init_world"
    /\ parts' = [parts EXCEPT ![w] = @ \cup {"P_world"}]
    /\ pc' = [pc EXCEPT ![w] = "setup_barrier"]
    /\ UNCHANGED <<cfgvars, arrived, x_site, i, j, mode, opt_steps, ops,
                   lossvars, histvars, fs, countvars>>

SetupBarrier(w) ==
    /\ pc[w] = "setup_barrier"
    /\ Arrive("world", w)
    /\ pc' = [pc EXCEPT ![w] = "setup_wait"]
    /\ UNCHANGED <<cfgvars, parts, x_site, i, j, mode, opt_steps, ops,
                   lossvars, histvars, fs, countvars>>

(* lines 17-35: root partition, then the two feature partitions *)
MakePartitions(w) ==
    /\ pc[w] = "make_parts"
    /\ parts' = [parts EXCEPT ![w] = @ \cup {"P_root", "P_x", "P_y"}]
    /\ pc' = [pc EXCEPT ![w] = "train_data"]
    /\ UNCHANGED <<cfgvars, arrived, x_site, i, j, mode, opt_steps, ops,
                   lossvars, histvars, fs, countvars>>

TrainData(w) ==
    /\ pc[w] = "train_data"
    /\ pc' = [pc EXCEPT ![w] = "valid_data"]
    /\ UNCHANGED <<cfgvars, parts, arrived, x_site, i, j, mode, opt_steps, ops,
                   lossvars, histvars, fs, countvars>>

ValidData(w) ==
    /\ pc[w] = "valid_data"
    /\ pc' = [pc EXCEPT ![w] = "data_barrier"]
    /\ UNCHANGED <<cfgvars, parts, arrived, x_site, i, j, mode, opt_steps, ops,
                   lossvars, histvars, fs, countvars>>

DataBarrier(w) ==
    /\ pc[w] = "data_barrier"
    /\ Arrive("world", w)
    /\ pc' = [pc EXCEPT ![w] = "data_wait"]
    /\ UNCHANGED <<cfgvars, parts, x_site, i, j, mode, opt_steps, ops,
                   lossvars, histvars, fs, countvars>>

(* lines 76-103: model, optimizer, criterion and the root's loss histories *)
BuildModel(w) ==
    /\ pc[w] = "build"
    /\ IF RootActive(w)
          THEN /\ train_accs' = [train_accs EXCEPT ![w] = <<>>]
               /\ valid_accs' = [valid_accs EXCEPT ![w] = <<>>]
               /\ hist_bound' = [hist_bound EXCEPT ![w] = TRUE]
          ELSE UNCHANGED <<train_accs, valid_accs, hist_bound>>
    /\ pc' = [pc EXCEPT ![w] = "epoch_top"]
    /\ UNCHANGED <<cfgvars, parts, arrived, x_site, i, j, mode, opt_steps, ops,
                   lossvars, fs, countvars>>

(* the return of a Barrier() call, at any of its four call sites *)
AfterBarrier(p) ==
    CASE p = "setup_wait" -> "make_parts"
      [] p = "data_wait" -> "build"
      [] p = "batch_wait" -> "train_iter"
      [] p = "epoch_wait" -> "eval_mode"

BarrierComm(p) == IF p \in {"setup_wait", "data_wait"} THEN "world" ELSE "x"

BarrierReturn(w) ==
    /\ pc[w] \in {"setup_wait", "data_wait", "batch_wait", "epoch_wait"}
    /\ BarrierOpen(BarrierComm(pc[w]), w)
    /\ pc' = [pc EXCEPT ![w] = AfterBarrier(pc[w])]
    /\ UNCHANGED <<cfgvars, parts, arrived, x_site, i, j, mode, opt_steps, ops,
                   lossvars, histvars, fs, countvars>>

(* variant: the epoch loop runs one time too many *)
EpochTop_OffByOne(w) ==
    /\ pc[w] = "epoch_top"
    /\ IF i[w] + 1 <= num_epochs
          THEN /\ i' = [i EXCEPT ![w] = @ + 1]
               /\ mode' = [mode EXCEPT ![w] = "train"]
               /\ train_loss' = [train_loss EXCEPT ![w] = 0]
               /\ n_train_batch' = [n_train_batch EXCEPT ![w] = 0]
               /\ j' = [j EXCEPT ![w] = -1]
               /\ pc' = [pc EXCEPT ![w] = "train_iter"]
          ELSE /\ UNCHANGED <<i, mode, train_loss, n_train_batch, j>>
               /\ pc' = [pc EXCEPT ![w] = "final_save"]
    /\ UNCHANGED <<cfgvars, parts, arrived, x_site, opt_steps, ops,
                   valid_loss, n_valid_batch, histvars, fs, countvars>>

(* ---- training loop, lines 106-172 ---- *)
(* lines 106-111: for i in range(num_epochs), and the head of the body *)
EpochTop(w) ==
    /\ pc[w] = "epoch_top"
    /\ IF i[w] + 1 < num_epochs
          THEN /\ i' = [i EXCEPT ![w] = @ + 1]
               /\ mode' = [mode EXCEPT ![w] = "train"]
               /\ train_loss' = [train_loss EXCEPT ![w] = 0]
               /\ n_train_batch' = [n_train_batch EXCEPT ![w] = 0]
               /\ j' = [j EXCEPT ![w] = -1]
               /\ pc' = [pc EXCEPT ![w] = "train_iter"]
          ELSE /\ UNCHANGED <<i, mode, train_loss, n_train_batch, j>>
               /\ pc' = [pc EXCEPT ![w] = "final_save"]
    /\ UNCHANGED <<cfgvars, parts, arrived, x_site, opt_steps, ops,
                   valid_loss, n_valid_batch, histvars, fs, countvars>>

(* lines 113-120: next batch of train_loader, to device, zero_grad *)
TrainFetch(w) ==
    /\ pc[w] = "train_iter"
    /\ j[w] + 1 < train_len[w]
    /\ j' = [j EXCEPT ![w] = @ + 1]
    /\ ops' = [ops EXCEPT ![w] = IF has_params[w] THEN <<"zero_grad">> ELSE <<>>]
    /\ begun' = [begun EXCEPT ![w] = @ + 1]
    /\ pc' = [pc EXCEPT ![w] = "forward"]
    /\ UNCHANGED <<cfgvars, parts, arrived, x_site, i, mode, opt_steps,
                   lossvars, histvars, fs, cycles, stepped>>

(* lines 122-127: forward pass, loss, root-only accumulation *)
Forward(w) ==
    /\ pc[w] = "forward"
    /\ ops' = [ops EXCEPT ![w] = @ \o <<"forward", "loss">>]
    /\ IF RootActive(w)
          THEN /\ train_loss' = [train_loss EXCEPT ![w] =
                                   @ + LossItem(opt_steps[w], j[w])]
               /\ n_train_batch' = [n_train_batch EXCEPT ![w] = @ + 1]
          ELSE UNCHANGED <<train_loss, n_train_batch>>
    /\ pc' = [pc EXCEPT ![w] = "backward"]
    /\ UNCHANGED <<cfgvars, parts, arrived, x_site, i, j, mode, opt_steps,
                   valid_loss, n_valid_batch, histvars, fs, countvars>>

(* variant: the optimizer step is not guarded by "optimizer is not None" *)
BackwardStep_Unguarded(w) ==
    /\ pc[w] = "backward"
    /\ opt_steps' = [opt_steps EXCEPT ![w] = @ + 1]
    /\ ops' = [ops EXCEPT ![w] = @ \o <<"backward", "step">>]
    /\ stepped' = [stepped EXCEPT ![w] = @ + 1]
    /\ pc' = [pc EXCEPT ![w] = "batch_barrier"]
    /\ UNCHANGED <<cfgvars, parts, arrived, x_site, i, j, mode,
                   lossvars, histvars, fs, cycles, begun>>

(* lines 129-131: loss.backward(), then optimizer.step() if there is one *)
BackwardStep(w) ==
    /\ pc[w] = "backward"
    /\ IF has_params[w]
          THEN /\ opt_steps' = [opt_steps EXCEPT ![w] = @ + 1]
               /\ ops' = [ops EXCEPT ![w] = @ \o <<"backward", "step">>]
          ELSE /\ UNCHANGED opt_steps
               /\ ops' = [ops EXCEPT ![w] = Append(@, "backward")]
    /\ stepped' = [stepped EXCEPT ![w] = @ + 1]
    /\ pc' = [pc EXCEPT ![w] = "batch_barrier"]
    /\ UNCHANGED <<cfgvars, parts, arrived, x_site, i, j, mode,
                   lossvars, histvars, fs, cycles, begun>>

(* variant: no barrier at the end of a training batch *)
BatchBarrier_Skipped(w) ==
    /\ pc[w] = "batch_barrier"
    /\ pc' = [pc EXCEPT ![w] = "train_iter"]
    /\ UNCHANGED <<cfgvars, parts, arrived, x_site, i, j, mode, opt_steps, ops,
                   lossvars, histvars, fs, countvars>>

(* line 133 *)
BatchBarrier(w) ==
    /\ pc[w] = "batch_barrier"
    /\ Arrive("x", w)
    /\ x_site' = [x_site EXCEPT ![w] = "batch"]
    /\ ops' = [ops EXCEPT ![w] = Append(@, "barrier")]
    /\ pc' = [pc EXCEPT ![w] = "batch_wait"]
    /\ UNCHANGED <<cfgvars, parts, i, j, mode, opt_steps,
                   lossvars, histvars, fs, countvars>>

(* variant: the mean of an empty epoch is skipped instead of raising *)
TrainMean_Guarded(w) ==
    /\ pc[w] = "train_iter"
    /\ ~(j[w] + 1 < train_len[w])
    /\ IF RootActive(w) /\ n_train_batch[w] > 0
          THEN train_accs' = [train_accs EXCEPT ![w] =
                                Append(@, Mean(train_loss[w], n_train_batch[w]))]
          ELSE UNCHANGED train_accs
    /\ pc' = [pc EXCEPT ![w] = "epoch_barrier"]
    /\ UNCHANGED <<cfgvars, parts, arrived, x_site, i, j, mode, opt_steps, ops,
                   lossvars, valid_accs, hist_bound, fs, countvars>>

(* lines 113, 136-137: train_loader is exhausted; the root appends the     *)
(* mean, and train_loss/n_train_batch raises ZeroDivisionError on 0        *)
TrainMean(w) ==
    /\ pc[w] = "train_iter"
    /\ ~(j[w] + 1 < train_len[w])
    /\ IF RootActive(w)
          THEN IF n_train_batch[w] = 0
                  THEN /\ pc' = [pc EXCEPT ![w] = "crashed"]
                       /\ UNCHANGED train_accs
                  ELSE /\ train_accs' = [train_accs EXCEPT ![w] =
                             Append(@, Mean(train_loss[w], n_train_batch[w]))]
                       /\ pc' = [pc EXCEPT ![w] = "epoch_barrier"]
          ELSE /\ pc' = [pc EXCEPT ![w] = "epoch_barrier"]
               /\ UNCHANGED train_accs
    /\ UNCHANGED <<cfgvars, parts, arrived, x_site, i, j, mode, opt_steps, ops,
                   lossvars, valid_accs, hist_bound, fs, countvars>>

(* variant: no barrier between the training and the validation loop *)
EpochBarrier_Skipped(w) ==
    /\ pc[w] = "epoch_barrier"
    /\ pc' = [pc EXCEPT ![w] = "eval_mode"]
    /\ UNCHANGED <<cfgvars, parts, arrived, x_site, i, j, mode, opt_steps, ops,
                   lossvars, histvars, fs, countvars>>

(* line 139 *)
EpochBarrier(w) ==
    /\ pc[w] = "epoch_barrier"
    /\ Arrive("x", w)
    /\ x_site' = [x_site EXCEPT ![w] = "epoch"]
    /\ pc' = [pc EXCEPT ![w] = "epoch_wait"]
    /\ UNCHANGED <<cfgvars, parts, i, j, mode, opt_steps, ops,
                   lossvars, histvars, fs, countvars>>

(* variant: the loss histories are re-created before every validation loop *)
EvalMode_ResetsHistory(w) ==
    /\ pc[w] = "eval_mode"
    /\ mode' = [mode EXCEPT ![w] = "eval"]
    /\ valid_loss' = [valid_loss EXCEPT ![w] = 0]
    /\ n_valid_batch' = [n_valid_batch EXCEPT ![w] = 0]
    /\ j' = [j EXCEPT ![w] = -1]
    /\ train_accs' = [train_accs EXCEPT ![w] = <<>>]
    /\ valid_accs' = [valid_accs EXCEPT ![w] = <<>>]
    /\ pc' = [pc EXCEPT ![w] = "valid_iter"]
    /\ UNCHANGED <<cfgvars, parts, arrived, x_site, i, opt_steps, ops,
                   train_loss, n_train_batch, hist_bound, fs, countvars>>

(* lines 142-144 *)
EvalMode(w) ==
    /\ pc[w] = "eval_mode"
    /\ mode' = [mode EXCEPT ![w] = "eval"]
    /\ valid_loss' = [valid_loss EXCEPT ![w] = 0]
    /\ n_valid_batch' = [n_valid_batch EXCEPT ![w] = 0]
    /\ j' = [j EXCEPT ![w] = -1]
    /\ pc' = [pc EXCEPT ![w] = "valid_iter"]
    /\ UNCHANGED <<cfgvars, parts, arrived, x_site, i, opt_steps, ops,
                   train_loss, n_train_batch, histvars, fs, countvars>>

(* variant: the validation batch also runs backward and the optimizer *)
ValidBatch_Trains(w) ==
    /\ pc[w] = "valid_iter"
    /\ j[w] + 1 < valid_len[w]
    /\ j' = [j EXCEPT ![w] = @ + 1]
    /\ ops' = [ops EXCEPT ![w] = <<"forward", "loss", "backward", "step">>]
    /\ opt_steps' = [opt_steps EXCEPT ![w] = @ + 1]
    /\ IF RootActive(w)
          THEN /\ valid_loss' = [valid_loss EXCEPT ![w] =
                                   @ + LossItem(opt_steps[w], j[w] + 1)]
               /\ n_valid_batch' = [n_valid_batch EXCEPT ![w] = @ + 1]
          ELSE UNCHANGED <<valid_loss, n_valid_batch>>
    /\ UNCHANGED <<cfgvars, pc, parts, arrived, x_site, i, mode,
                   train_loss, n_train_batch, histvars, fs, countvars>>

(* lines 146-156: one validation batch under torch.no_grad() *)
ValidBatch(w) ==
    /\ pc[w] = "valid_iter"
    /\ j[w] + 1 < valid_len[w]
    /\ j' = [j EXCEPT ![w] = @ + 1]
    /\ ops' = [ops EXCEPT ![w] = <<"forward", "loss">>]
    /\ IF RootActive(w)
          THEN /\ valid_loss' = [valid_loss EXCEPT ![w] =
                                   @ + LossItem(opt_steps[w], j[w] + 1)]
               /\ n_valid_batch' = [n_valid_batch EXCEPT ![w] = @ + 1]
          ELSE UNCHANGED <<valid_loss, n_valid_batch>>
    /\ UNCHANGED <<cfgvars, pc, parts, arrived, x_site, i, mode, opt_steps,
                   train_loss, n_train_batch, histvars, fs, countvars>>

(* variant: the validation mean is appended only after the checkpoint *)
ValidMean_NotAppended(w) ==
    /\ pc[w] = "valid_iter"
    /\ ~(j[w] + 1 < valid_len[w])
    /\ IF RootActive(w) /\ (n_train_batch[w] = 0 \/ n_valid_batch[w] = 0)
          THEN pc' = [pc EXCEPT ![w] = "crashed"]
          ELSE pc' = [pc EXCEPT ![w] = "ckpt_check"]
    /\ UNCHANGED <<cfgvars, parts, arrived, x_site, i, j, mode, opt_steps, ops,
                   lossvars, histvars, fs, countvars>>

(* lines 146, 158-160: valid_loader is exhausted; the root's print divides *)
(* by both counts before the append                                        *)
ValidMean(w) ==
    /\ pc[w] = "valid_iter"
    /\ ~(j[w] + 1 < valid_len[w])
    /\ IF RootActive(w)
          THEN IF n_train_batch[w] = 0 \/ n_valid_batch[w] = 0
                  THEN /\ pc' = [pc EXCEPT ![w] = "crashed"]
                       /\ UNCHANGED valid_accs
                  ELSE /\ valid_accs' = [valid_accs EXCEPT ![w] =
                             Append(@, Mean(valid_loss[w], n_valid_batch[w]))]
                       /\ pc' = [pc EXCEPT ![w] = "ckpt_check"]
          ELSE /\ pc' = [pc EXCEPT ![w] = "ckpt_check"]
               /\ UNCHANGED valid_accs
    /\ UNCHANGED <<cfgvars, parts, arrived, x_site, i, j, mode, opt_steps, ops,
                   lossvars, train_accs, hist_bound, fs, countvars>>

(* variant: the loss file is written by every worker *)
CheckpointCheck_NoRootGuard(w) ==
    /\ pc[w] = "ckpt_check"
    /\ IF CheckpointDue(i[w], checkpoint_interval)
          THEN /\ fs' = WriteFile(fs, LossPath(i[w]),
                                  [by |-> w, train_loss |-> train_accs[w],
                                   valid_loss |-> valid_accs[w]])
               /\ pc' = [pc EXCEPT ![w] = "model_ckpt"]
               /\ UNCHANGED cycles
          ELSE /\ pc' = [pc EXCEPT ![w] = "epoch_top"]
               /\ cycles' = [cycles EXCEPT ![w] = @ + 1]
               /\ UNCHANGED fs
    /\ UNCHANGED <<cfgvars, parts, arrived, x_site, i, j, mode, opt_steps, ops,
                   lossvars, histvars, begun, stepped>>

(* lines 163-169: the interval test and the root-only loss file; when no   *)
(* checkpoint is due the loop body ends here                               *)
CheckpointCheck(w) ==
    /\ pc[w] = "ckpt_check"
    /\ IF CheckpointDue(i[w], checkpoint_interval)
          THEN /\ fs' = IF RootActive(w)
                           THEN WriteFile(fs, LossPath(i[w]),
                                          [by |-> w, train_loss |-> train_accs[w],
                                           valid_loss |-> valid_accs[w]])
                           ELSE fs
               /\ pc' = [pc EXCEPT ![w] = "model_ckpt"]
               /\ UNCHANGED cycles
          ELSE /\ pc' = [pc EXCEPT ![w] = "epoch_top"]
               /\ cycles' = [cycles EXCEPT ![w] = @ + 1]
               /\ UNCHANGED fs
    /\ UNCHANGED <<cfgvars, parts, arrived, x_site, i, j, mode, opt_steps, ops,
                   lossvars, histvars, begun, stepped>>

(* lines 171-172, the end of the loop body *)
ModelCheckpoint(w) ==
    /\ pc[w] = "model_ckpt"
    /\ fs' = WriteFile(fs, CheckpointPath(i[w], w),
                       [by |-> w, state |-> StateDict(w)])
    /\ cycles' = [cycles EXCEPT ![w] = @ + 1]
    /\ pc' = [pc EXCEPT ![w] = "epoch_top"]
    /\ UNCHANGED <<cfgvars, parts, arrived, x_site, i, j, mode, opt_steps, ops,
                   lossvars, histvars, begun, stepped>>

(* lines 175-177 *)
FinalSave(w) ==
    /\ pc[w] = "final_save"
    /\ fs' = WriteFile(fs, FinalPath(w), [by |-> w, state |-> StateDict(w)])
    /\ pc' = [pc EXCEPT ![w] = "finish"]
    /\ UNCHANGED <<cfgvars, parts, arrived, x_site, i, j, mode, opt_steps, ops,
                   lossvars, histvars, countvars>>

(* lines 179-180 *)
Finish(w) ==
    /\ pc[w] = "finish"
    /\ pc' = [pc EXCEPT ![w] = "done"]
    /\ UNCHANGED <<cfgvars, parts, arrived, x_site, i, j, mode, opt_steps, ops,
                   lossvars, histvars, fs, countvars>>

Next ==
    \E w \in Workers :
        \/ InitMPI(w)
        \/ SetupBarrier(w)
        \/ MakePartitions(w)
        \/ TrainData(w)
        \/ ValidData(w)
        \/ DataBarrier(w)
        \/ BuildModel(w)
        \/ BarrierReturn(w)
        \/ EpochTop(w)
        \/ TrainFetch(w)
        \/ Forward(w)
        \/ BackwardStep(w)
        \/ BatchBarrier(w)
        \/ TrainMean(w)
        \/ EpochBarrier(w)
        \/ EvalMode(w)
        \/ ValidBatch(w)
        \/ ValidMean(w)
        \/ CheckpointCheck(w)
        \/ ModelCheckpoint(w)
        \/ FinalSave(w)
        \/ Finish(w)

Spec == Init /\ [][Next]_vars

(* ---- vocabulary of the properties ---- *)
SetupPcs == {"init_world", "setup_barrier", "setup_wait", "make_parts",
             "train_data", "valid_data", "data_barrier", "data_wait", "build"}
BatchPcs == {"forward", "backward", "batch_barrier", "batch_wait"}
TrainPcs == {"train_iter"} \cup BatchPcs
ValidPcs == {"eval_mode", "valid_iter"}
CheckpointPcs == {"ckpt_check", "model_ckpt"}
FinalPcs == {"final_save", "finish", "done"}
WaitPcs == {"setup_wait", "data_wait", "batch_wait", "epoch_wait"}

AllDone == \A w \in Workers : pc[w] = "done"

(* no worker can take a step any more: each one has finished, has crashed *)
(* or waits in a Barrier() that cannot return                              *)
CanStep(w) ==
    /\ pc[w] \notin {"done", "crashed"}
    /\ pc[w] \in WaitPcs => BarrierOpen(BarrierComm(pc[w]), w)

Halted == \A w \in Workers : ~CanStep(w)

(* number of writes worker w made to a path *)
SavesBy(path, w) == Len(SelectSeq(Writes(path), LAMBDA r : r.by = w))

(* all writes worker w made, over all paths *)
RECURSIVE SumOver(_, _)
SumOver(S, w) ==
    IF S = {} THEN 0
    ELSE LET p == CHOOSE q \in S : TRUE
         IN SavesBy(p, w) + SumOver(S \ {p}, w)
WritesBy(w) == SumOver(DOMAIN fs, w)

EqualBatchCounts ==
    \A w, v \in Workers : /\ train_len[w] = train_len[v]
                          /\ valid_len[w] = valid_len[v]

(* C1: with num_epochs >= 1 and batch counts that are equal on all workers *)
(* and non-zero, every worker runs FinalSave exactly once (one write of    *)
(* model_<rank>.pt, none before the step), only after exactly num_epochs   *)
(* completed train/validate cycles with all their batches, and the run     *)
(* cannot halt before every worker has done so.                            *)
C1_FinalSaveOnceAfterAllEpochs ==
    (EqualBatchCounts /\ train_len[0] >= 1 /\ valid_len[0] >= 1) =>
        /\ \A w \in Workers :
            /\ SavesBy(FinalPath(w), w) = IF pc[w] \in {"finish", "done"} THEN 1 ELSE 0
            /\ Len(Writes(FinalPath(w))) <= 1
            /\ pc[w] \in FinalPcs =>
                  /\ cycles[w] = num_epochs
                  /\ i[w] = num_epochs - 1
                  /\ begun[w] = num_epochs * train_len[w]
                  /\ stepped[w] = num_epochs * train_len[w]
            /\ pc[w] # "crashed"
        /\ Halted => AllDone

C1_Witness ==
    /\ n = 2 /\ num_epochs = 2 /\ AllDone
    /\ train_len[0] = 2 /\ train_len[1] = 2 /\ valid_len[0] = 1
    /\ \A w \in Workers : SavesBy(FinalPath(w), w) = 1 /\ cycles[w] = 2

(* C2: a worker writes model_<epoch>_<rank>.pt in epoch e iff              *)
(* (e+1) mod checkpoint_interval = 0, for every e in 0..num_epochs-1, once; *)
(* with interval 10 and 100 epochs a finished worker has written exactly    *)
(* the 10 checkpoints of epochs 9,19,...,99 and one final save.             *)
CheckpointsOf(w) ==
    { e \in 0 .. (num_epochs - 1) : SavesBy(CheckpointPath(e, w), w) > 0 }

C2_CheckpointEpochs ==
    \A w \in Workers :
        /\ \A e \in 0 .. (num_epochs - 1) :
              SavesBy(CheckpointPath(e, w), w) =
                  IF cycles[w] > e /\ (e + 1) % checkpoint_interval = 0
                      THEN 1 ELSE 0
        /\ pc[w] = "done" =>
              /\ Cardinality(CheckpointsOf(w)) = num_epochs \div checkpoint_interval
              /\ WritesBy(w) =
                    Cardinality(CheckpointsOf(w)) + 1
                    + (IF RootActive(w) THEN num_epochs \div checkpoint_interval ELSE 0)
        /\ (pc[w] = "done" /\ num_epochs = 100 /\ checkpoint_interval = 10) =>
              /\ CheckpointsOf(w) = {9, 19, 29, 39, 49, 59, 69, 79, 89, 99}
              /\ SavesBy(FinalPath(w), w) = 1

C2_Witness ==
    /\ num_epochs = 100 /\ checkpoint_interval = 10 /\ AllDone
    /\ Cardinality(CheckpointsOf(0)) = 10

(* C3: on the root-active worker both loss histories have one entry per    *)
(* completed epoch: at every epoch boundary their lengths equal the number  *)
(* of completed epochs, inside an epoch they are at most one ahead, and     *)
(* no step shortens them or adds more than one entry.                       *)
HistoryLengthOK ==
    hist_bound[0] =>
        /\ Len(train_accs[0]) \in {cycles[0], cycles[0] + 1}
        /\ Len(valid_accs[0]) \in {cycles[0], cycles[0] + 1}
        /\ Len(valid_accs[0]) <= Len(train_accs[0])
        /\ pc[0] \in {"epoch_top"} \cup FinalPcs =>
              /\ Len(train_accs[0]) = cycles[0]
              /\ Len(valid_accs[0]) = cycles[0]
        /\ pc[0] \in {"epoch_top"} \cup TrainPcs =>
              Len(train_accs[0]) = i[0] + (IF pc[0] = "epoch_top" THEN 1 ELSE 0)
        /\ pc[0] \in {"epoch_barrier", "epoch_wait"} =>
              /\ Len(train_accs[0]) = i[0] + 1
              /\ Len(valid_accs[0]) = i[0]
        /\ pc[0] \in ValidPcs => /\ Len(train_accs[0]) = i[0] + 1
                                 /\ Len(valid_accs[0]) = i[0]
        /\ pc[0] \in CheckpointPcs => /\ Len(train_accs[0]) = i[0] + 1
                                      /\ Len(valid_accs[0]) = i[0] + 1

C3_HistoryLength ==
    [][ /\ HistoryLengthOK'
        /\ hist_bound[0] =>
              /\ hist_bound'[0]
              /\ Len(train_accs'[0]) \in {Len(train_accs[0]), Len(train_accs[0]) + 1}
              /\ Len(valid_accs'[0]) \in {Len(valid_accs[0]), Len(valid_accs[0]) + 1}
      ]_vars

C3_Witness ==
    /\ pc[0] = "done" /\ num_epochs = 2
    /\ Len(train_accs[0]) = 2 /\ Len(valid_accs[0]) = 2

(* C4: when the training loop (or the validation loop) of the root-active  *)
(* worker yields zero batches, the step computing that loop's mean ends in  *)
(* the crashed state without appending to the history; a crashed worker     *)
(* stays crashed and writes no file afterwards.                             *)
C4_ZeroBatchIsFatal ==
    [][ /\ (pc[0] = "train_iter" /\ pc'[0] # "train_iter" /\ train_len[0] = 0) =>
              /\ pc'[0] = "crashed"
              /\ train_accs' = train_accs
        /\ (pc[0] = "valid_iter" /\ pc'[0] # "valid_iter" /\ valid_len[0] = 0) =>
              /\ pc'[0] = "crashed"
              /\ valid_accs' = valid_accs
        /\ \A w \in Workers :
              pc[w] = "crashed" =>
                  /\ pc'[w] = "crashed"
                  /\ \A p \in DOMAIN fs' : SavesBy(p, w)' = SavesBy(p, w)
        /\ (train_len[0] = 0 \/ valid_len[0] = 0) =>
              /\ pc'[0] \notin CheckpointPcs \cup FinalPcs
              /\ WritesBy(0)' = 0
              /\ train_len[0] = 0 => train_accs'[0] = <<>>
              /\ valid_accs'[0] = <<>>
      ]_vars

C4_Witness ==
    /\ n = 2 /\ pc[0] = "crashed" /\ train_len[0] = 2 /\ valid_len[0] = 0
    /\ Len(train_accs[0]) = 1 /\ valid_accs[0] = <<>>

DifferingTrainCounts == \E w, v \in Workers : train_len[w] # train_len[v]

C6_NoSilentDivergence ==
    (n = 2 /\ DifferingTrainCounts) =>
        /\ \A w, v \in Workers :
              (arrived["x"][w] = arrived["x"][v] /\ arrived["x"][w] > 0) =>
                  x_site[w] = x_site[v]
        /\ \A w, v \in Workers :
              (pc[v] \in BatchPcs /\ pc[w] \in ValidPcs \cup CheckpointPcs \cup FinalPcs) =>
                  i[v] >= i[w] /\ pc[w] \notin FinalPcs
        /\ \A w, v \in Workers :
              (pc[v] \in BatchPcs /\ pc[w] \in TrainPcs) => i[w] <= i[v] + 1

(* C7: only the root-active worker owns a loss history and writes loss     *)
(* files; it has written loss_epoch_<e>.h5 (0-based e) exactly once for    *)
(* every epoch e with (e+1) mod checkpoint_interval = 0 whose checkpoint   *)
(* block it has passed, and no other loss file.                            *)
IsLossRecord(r) == "train_loss" \in DOMAIN r

LossFileWritten(e) ==
    \/ cycles[0] > e
    \/ i[0] = e /\ pc[0] = "model_ckpt"

C7_LossHistoryRootOnly ==
    /\ \A w \in Workers :
          ~RootActive(w) =>
              /\ ~hist_bound[w]
              /\ train_accs[w] = <<>> /\ valid_accs[w] = <<>>
    /\ \A p \in DOMAIN fs :
          \A k \in 1 .. Len(fs[p]) :
              IsLossRecord(fs[p][k]) =>
                  /\ fs[p][k].by = 0
                  /\ \E e \in 0 .. (num_epochs - 1) : p = LossPath(e)
    /\ \A e \in 0 .. (num_epochs - 1) :
          /\ Len(Writes(LossPath(e))) =
                IF (e + 1) % checkpoint_interval = 0 /\ LossFileWritten(e)
                    THEN 1 ELSE 0
          /\ \A k \in 1 .. Len(Writes(LossPath(e))) :
                IsLossRecord(Writes(LossPath(e))[k])

C7_Witness ==
    /\ n = 2 /\ AllDone /\ num_epochs = 2 /\ checkpoint_interval = 2
    /\ Len(Writes(LossPath(1))) = 1 /\ Len(Writes(LossPath(0))) = 0

(* C8 as stated: no worker has begun data loading before every worker has  *)
(* constructed all four partitions.                                        *)
AllPartitions == {"P_world", "P_root", "P_x", "P_y"}

BegunDataLoading(w) == pc[w] \notin {"init_world", "setup_barrier", "setup_wait",
                                     "make_parts", "train_data"}

C8_Original ==
    \A w, v \in Workers : BegunDataLoading(w) => parts[v] = AllPartitions

(* C8 as amended: the barrier is taken right after the world partition is  *)
(* constructed; no worker begins constructing the root or the feature      *)
(* partitions, or loading data, before every worker has constructed its    *)
(* world partition and reached that barrier.                               *)
C8_BarrierAfterWorldPartition ==
    \A w, v \in Workers :
        (pc[w] \notin {"init_world", "setup_barrier", "setup_wait"}) =>
            /\ "P_world" \in parts[v]
            /\ pc[v] \notin {"init_world", "setup_barrier"}
            /\ arrived["world"][v] >= 1

C8_Witness ==
    /\ n = 2 /\ pc[0] = "valid_data" /\ pc[1] = "setup_wait"
    /\ parts[1] = {"P_world"}

(* C9: in every training batch the operations run in the order zero        *)
(* gradients, forward, loss, backward, optimizer step, barrier; a worker   *)
(* with parameters applies exactly one optimizer step per batch, a worker  *)
(* without applies none but still runs forward, loss and backward and      *)
(* arrives at the barrier once per batch, so mixed groups stay in step.    *)
BatchOrder == <<"zero_grad", "forward", "loss", "backward", "step", "barrier">>

Occurrences(sq, x) == Cardinality({k \in 1 .. Len(sq) : sq[k] = x})

(* sq lists operations of BatchOrder, each at most once, in that order *)
InBatchOrder(sq) ==
    /\ \A k \in 1 .. Len(sq) : \E m \in 1 .. Len(BatchOrder) : sq[k] = BatchOrder[m]
    /\ \A k, l \in 1 .. Len(sq) :
          k < l => \E a, b \in 1 .. Len(BatchOrder) :
                      a < b /\ sq[k] = BatchOrder[a] /\ sq[l] = BatchOrder[b]

C9_BatchStepOrder ==
    /\ \A w \in Workers :
        /\ pc[w] \in BatchPcs => InBatchOrder(ops[w])
        /\ pc[w] = "batch_wait" =>
              /\ Occurrences(ops[w], "forward") = 1
              /\ Occurrences(ops[w], "loss") = 1
              /\ Occurrences(ops[w], "backward") = 1
              /\ Occurrences(ops[w], "barrier") = 1
              /\ Occurrences(ops[w], "step") = IF has_params[w] THEN 1 ELSE 0
              /\ has_params[w] => Occurrences(ops[w], "zero_grad") = 1
        /\ opt_steps[w] = IF has_params[w] THEN stepped[w] ELSE 0
        /\ arrived["x"][w] >= stepped[w] - 1
        /\ pc[w] = "train_iter" =>
              arrived["x"][w] = stepped[w] + i[w]
    /\ (\A w, v \in Workers : train_len[w] = train_len[v]) =>
          \A w, v \in Workers : stepped[w] <= stepped[v] + 1

C9_Witness ==
    /\ n = 2 /\ has_params[0] /\ ~has_params[1]
    /\ train_len[0] = 2 /\ train_len[1] = 2
    /\ pc[0] = "batch_wait" /\ pc[1] = "batch_wait"
    /\ stepped[0] = 2 /\ stepped[1] = 2
    /\ opt_steps[0] = 2 /\ opt_steps[1] = 0
    /\ ops[1] = <<"forward", "loss", "backward", "barrier">>

(* C10: when all workers have the same training batch count, no worker     *)
(* begins training batch j+1 before every worker has finished the          *)
(* optimizer block of batch j, and no worker is in (or past) the           *)
(* validation loop of epoch e before every worker has finished all         *)
(* training batches of epoch e.                                            *)
C10_TrainingLockstep ==
    (\A w, v \in Workers : train_len[w] = train_len[v]) =>
        \A w, v \in Workers :
            /\ begun[w] <= stepped[v] + 1
            /\ begun[w] >= 1 => stepped[v] >= begun[w] - 1
            /\ pc[w] \in ValidPcs \cup CheckpointPcs =>
                  stepped[v] >= (i[w] + 1) * train_len[v]
            /\ pc[w] \in FinalPcs => stepped[v] >= num_epochs * train_len[v]

C10_Witness ==
    /\ n = 2 /\ train_len[0] = 2 /\ train_len[1] = 2
    /\ pc[0] = "valid_iter" /\ i[0] = 0 /\ j[0] = 0
    /\ pc[1] = "epoch_wait" /\ stepped[1] = 2 /\ begun[0] = 2

EqualTrainCounts == \A w, v \in Workers : train_len[w] = train_len[v]

(* C11 as stated: (with equal training batch counts) no worker is in the   *)
(* first training batch of epoch e+1 before every worker has finished      *)
(* epoch e, its validation loop and checkpoint write included.             *)
C11_Original ==
    EqualTrainCounts =>
        \A w, v \in Workers :
            (pc[w] \in BatchPcs /\ i[w] >= 1) => cycles[v] >= i[w]

(* worker w has returned from a barrier on P_x inside its current epoch *)
PastBarrierInEpoch(w) ==
    \/ pc[w] = "train_iter" /\ j[w] >= 0
    \/ pc[w] \in BatchPcs /\ j[w] >= 1
    \/ pc[w] \in {"epoch_barrier", "epoch_wait"} /\ train_len[w] >= 1
    \/ pc[w] \in ValidPcs \cup CheckpointPcs
    \/ pc[w] = "epoch_top" /\ cycles[w] = i[w] + 1

(* C11 as amended: with equal training batch counts, no worker returns     *)
(* from the first barrier of epoch e+1 (the barrier after its first        *)
(* training batch) before every worker has finished epoch e, validation    *)
(* loop and checkpoint write included; and no worker begins the first      *)
(* training batch of epoch e+1 before every worker has passed the          *)
(* training loop of epoch e.                                               *)
C11_EpochBoundaryAtFirstBarrier ==
    EqualTrainCounts =>
        \A w, v \in Workers :
            /\ (i[w] >= 1 /\ PastBarrierInEpoch(w)) => cycles[v] >= i[w]
            /\ (i[w] >= 1 /\ pc[w] \in BatchPcs) =>
                  /\ i[v] >= i[w] - 1
                  /\ stepped[v] >= i[w] * train_len[v]
                  /\ pc[v] \notin TrainPcs \/ i[v] >= i[w]

C11_Witness ==
    /\ n = 2 /\ train_len[0] = 1 /\ train_len[1] = 1
    /\ i[0] = 1 /\ pc[0] = "batch_wait" /\ stepped[0] = 2
    /\ i[1] = 0 /\ pc[1] = "valid_iter" /\ cycles[1] = 0

(* barriers on P_x worker w has returned from *)
BarriersPassed(w) ==
    arrived["x"][w] - (IF pc[w] \in {"batch_wait", "epoch_wait"} THEN 1 ELSE 0)

(* C12 as stated: (with equal training batch counts) once a worker has     *)
(* crashed, no other worker reaches FinalSave or Done or writes a later    *)
(* checkpoint, and when the run has halted every other worker is blocked   *)
(* at a barrier.                                                           *)
C12_Original ==
    EqualTrainCounts =>
        \A w, v \in Workers :
            (pc[w] = "crashed" /\ v # w) =>
                /\ pc[v] \notin FinalPcs
                /\ Halted => pc[v] \in WaitPcs

(* C12 as amended: once the root-active worker has crashed on the division *)
(* by zero, no other worker returns from a barrier the crashed worker      *)
(* never arrived at.  With equal training batch counts: after a crash in   *)
(* the training mean the others write nothing and end blocked at their     *)
(* first barrier; after a crash in the validation mean of epoch e the      *)
(* others can still finish validation and write the checkpoint of epoch e, *)
(* and then end blocked at the first barrier of epoch e+1, or, when e is   *)
(* the last epoch, perform FinalSave and reach Done; none of them writes a *)
(* checkpoint of a later epoch.                                            *)
C12_SurvivorsStopAtNextBarrier ==
    \A w, v \in Workers :
        (pc[w] = "crashed" /\ v # w) =>
            /\ BarriersPassed(v) <= arrived["x"][w]
            /\ EqualTrainCounts =>
                  /\ i[v] <= i[w] + 1
                  /\ cycles[v] <= i[w] + 1
                  /\ \A e \in 0 .. (num_epochs - 1) :
                        e > i[w] => SavesBy(CheckpointPath(e, v), v) = 0
                  /\ train_len[w] = 0 => /\ WritesBy(v) = 0
                                         /\ BarriersPassed(v) = 0
                  /\ pc[v] \in FinalPcs => i[w] = num_epochs - 1 /\ valid_len[w] = 0
                  /\ Halted =>
                        \/ pc[v] \in {"batch_wait", "epoch_wait"}
                        \/ pc[v] = "done" /\ i[w] = num_epochs - 1

C12_Witness ==
    /\ n = 2 /\ num_epochs = 2 /\ checkpoint_interval = 1
    /\ train_len[0] = 1 /\ train_len[1] = 1
    /\ pc[0] = "crashed" /\ i[0] = 0
    /\ pc[1] = "batch_wait" /\ i[1] = 1
    /\ SavesBy(CheckpointPath(0, 1), 1) = 1
    /\ Halted

(* C13: from the return of the epoch-end barrier to the end of the         *)
(* validation loop a worker changes no model state (no optimizer step),    *)
(* zeroes no gradients, runs no backward pass and arrives at no barrier;   *)
(* a validation batch is forward and loss only; the model is in eval mode  *)
(* for every validation batch and in train mode for every training batch.  *)
C13_ValidationLeavesModelUnchanged ==
    [][ \A w \in Workers :
          /\ pc[w] \in ValidPcs =>
                /\ opt_steps'[w] = opt_steps[w]
                /\ StateDict(w)' = StateDict(w)
                /\ arrived'["x"][w] = arrived["x"][w]
                /\ arrived'["world"][w] = arrived["world"][w]
                /\ stepped'[w] = stepped[w] /\ begun'[w] = begun[w]
                /\ ops'[w] # ops[w] => ops'[w] = <<"forward", "loss">>
                /\ j'[w] > j[w] => mode[w] = "eval" /\ mode'[w] = "eval"
                /\ pc'[w] \in ValidPcs \cup {"ckpt_check", "crashed"}
          /\ pc'[w] = "valid_iter" => mode'[w] = "eval"
          /\ pc'[w] \in TrainPcs => mode'[w] = "train"
      ]_vars

C13_Witness ==
    /\ n = 2 /\ has_params[1] /\ train_len[1] = 2 /\ valid_len[1] = 1
    /\ pc[1] = "valid_iter" /\ j[1] = 0 /\ i[1] = 1
    /\ mode[1] = "eval" /\ opt_steps[1] = 4
    /\ ops[1] = <<"forward", "loss">>

(* C14: every file path is written exactly once over the run, by one       *)
(* worker: the root's loss files, the workers' checkpoints and the         *)
(* workers' final snapshots are pairwise distinct paths.                   *)
PathsOf(w) ==
    { CheckpointPath(e, w) : e \in 0 .. (num_epochs - 1) }
        \cup {FinalPath(w)}
        \cup (IF RootActive(w) THEN { LossPath(e) : e \in 0 .. (num_epochs - 1) }
              ELSE {})

C14_FilesDisjoint ==
    /\ \A p \in DOMAIN fs : Len(fs[p]) = 1
    /\ \A p \in DOMAIN fs : \E w \in Workers : fs[p][1].by = w /\ p \in PathsOf(w)
    /\ \A w \in Workers :
          WritesBy(w) = Cardinality({ p \in DOMAIN fs : fs[p][1].by = w })
    /\ \A w \in Workers :
          pc[w] = "done" =>
              Cardinality({ p \in DOMAIN fs : fs[p][1].by = w }) =
                  1 + (num_epochs \div checkpoint_interval)
                        * (IF RootActive(w) THEN 2 ELSE 1)

C14_Witness ==
    /\ n = 2 /\ AllDone /\ num_epochs = 2 /\ checkpoint_interval = 1
    /\ Cardinality(DOMAIN fs) = 8

(* every worker process keeps running: a worker that can take a step       *)
(* eventually takes one                                                    *)
WorkerNext(w) ==
    /\ w \in Workers
    /\ \/ InitMPI(w) \/ SetupBarrier(w) \/ MakePartitions(w) \/ TrainData(w)
       \/ ValidData(w) \/ DataBarrier(w) \/ BuildModel(w) \/ BarrierReturn(w)
       \/ EpochTop(w) \/ TrainFetch(w) \/ Forward(w) \/ BackwardStep(w)
       \/ BatchBarrier(w) \/ TrainMean(w) \/ EpochBarrier(w) \/ EvalMode(w)
       \/ ValidBatch(w) \/ ValidMean(w) \/ CheckpointCheck(w)
       \/ ModelCheckpoint(w) \/ FinalSave(w) \/ Finish(w)

FairSpec ==
    Init /\ [][Next]_vars /\ \A w \in 0 .. (MaxWorkers - 1) : WF_vars(WorkerNext(w))

NoFaultRun ==
    /\ EqualTrainCounts
    /\ train_len[0] >= 1
    /\ valid_len[0] >= 1

(* C15: when every worker has the same training batch count of at least    *)
(* one and the root-active worker has at least one validation batch, every *)
(* run terminates: eventually every worker has performed FinalSave and is  *)
(* Done, so no worker waits at a barrier forever.                          *)
C15_Terminates ==
    NoFaultRun ~> (AllDone /\ \A w \in Workers : SavesBy(FinalPath(w), w) = 1)

C15_Witness ==
    /\ NoFaultRun /\ n = 2 /\ num_epochs = 1 /\ AllDone
    /\ \A w \in Workers : arrived["x"][w] = train_len[w] + 1

(* optimizer steps the root has applied before training batch b of epoch e *)
RootStepsAt(e, b) == IF has_params[0] THEN e * train_len[0] + b ELSE 0

RECURSIVE TrainSumOf(_, _)
TrainSumOf(e, b) ==
    IF b = 0 THEN 0
    ELSE TrainSumOf(e, b - 1) + LossItem(RootStepsAt(e, b - 1), b - 1)

RECURSIVE ValidSumOf(_, _)
ValidSumOf(e, b) ==
    IF b = 0 THEN 0
    ELSE ValidSumOf(e, b - 1) + LossItem(RootStepsAt(e + 1, 0), b - 1)

(* C16: every loss file loss_epoch_<e>.h5 holds exactly e+1 train and e+1  *)
(* validation entries, the last of which are the means of epoch e itself   *)
(* (sum of that epoch's batch losses over its batch count); right after    *)
(* the write they are the means of the accumulators of the current epoch.  *)
C16_LossFileComplete ==
    /\ \A e \in 0 .. (num_epochs - 1) :
          \A k \in 1 .. Len(Writes(LossPath(e))) :
              LET f == Writes(LossPath(e))[k] IN
                  /\ Len(f.train_loss) = e + 1
                  /\ Len(f.valid_loss) = e + 1
                  /\ f.train_loss[e + 1] =
                        [num |-> TrainSumOf(e, train_len[0]), den |-> train_len[0]]
                  /\ f.valid_loss[e + 1] =
                        [num |-> ValidSumOf(e, valid_len[0]), den |-> valid_len[0]]
                  /\ \A d \in 1 .. (e + 1) :
                        /\ f.train_loss[d].den > 0
                        /\ f.valid_loss[d].den > 0
    /\ (pc[0] = "model_ckpt") =>
          LET f == Writes(LossPath(i[0]))[1] IN
              /\ f.train_loss = train_accs[0]
              /\ f.valid_loss = valid_accs[0]
              /\ f.train_loss[i[0] + 1] = Mean(train_loss[0], n_train_batch[0])
              /\ f.valid_loss[i[0] + 1] = Mean(valid_loss[0], n_valid_batch[0])

C16_Witness ==
    /\ pc[0] = "model_ckpt" /\ i[0] = 1 /\ checkpoint_interval = 2
    /\ train_len[0] = 1 /\ has_params[0]
    /\ Len(Writes(LossPath(1))) = 1
    /\ Len(Writes(LossPath(1))[1].valid_loss) = 2
    /\ Writes(LossPath(1))[1].train_loss[2].num = 2

(* C17: with B training batches per epoch on every worker, the state in    *)
(* model_<e>_<rank>.pt is the state after (e+1)*B training batches, the    *)
(* state in model_<rank>.pt the state after num_epochs*B, and when         *)
(* num_epochs is a multiple of checkpoint_interval the final snapshot      *)
(* equals the worker's last checkpoint.                                    *)
StateAfter(w, batches) == [steps |-> IF has_params[w] THEN batches ELSE 0]

C17_CheckpointShardsConsistent ==
    EqualTrainCounts =>
        \A w \in Workers :
            /\ \A e \in 0 .. (num_epochs - 1) :
                  \A k \in 1 .. Len(Writes(CheckpointPath(e, w))) :
                      Writes(CheckpointPath(e, w))[k].state =
                          StateAfter(w, (e + 1) * train_len[w])
            /\ pc[w] = "model_ckpt" => stepped[w] = (i[w] + 1) * train_len[w]
            /\ pc[w] = "final_save" => stepped[w] = num_epochs * train_len[w]
            /\ \A k \in 1 .. Len(Writes(FinalPath(w))) :
                  /\ Writes(FinalPath(w))[k].state =
                        StateAfter(w, num_epochs * train_len[w])
                  /\ num_epochs % checkpoint_interval = 0 =>
                        /\ Len(Writes(CheckpointPath(num_epochs - 1, w))) = 1
                        /\ Writes(FinalPath(w))[k].state =
                              Writes(CheckpointPath(num_epochs - 1, w))[1].state

C17_Witness ==
    /\ n = 2 /\ AllDone /\ num_epochs = 2 /\ checkpoint_interval = 2
    /\ train_len[0] = 2 /\ train_len[1] = 2 /\ has_params[1]
    /\ Writes(FinalPath(1))[1].state.steps = 4
    /\ Writes(CheckpointPath(1, 1))[1].state.steps = 4

====
